---- MODULE Spec2Model ----
(***************************************************************************)
(* Certificate backend (app.py): the certificate table and the three API   *)
(* handlers add_certificate, add_bulk_certificates and get_certificate.    *)
(* A handler is split at its database accesses: every SELECT and every      *)
(* commit is one step, so that requests served by different workers can    *)
(* interleave between a handler's pre-check and its commit.                *)
(***************************************************************************)
EXTENDS Integers, Sequences, FiniteSets, TLC

VARIABLES store, req, resp

vars == <<store, req, resp>>

(* ---------------------------------------------------------------------- *)
(* Bounds and input domains                                                *)
(* ---------------------------------------------------------------------- *)

\* Longest "certificates" list of a bulk request when requests run one at a time.
MaxBatch == 3

\* Longest "certificates" list of a bulk request when two requests interleave.
MaxRaceBatch == 2

\* Request slots: one worker serving one request at a time.
Slots == {1, 2}

Names == {"A", "B"}
Codes == {"c1", "c2"}
Images == {"p", "q"}

\* Marks a key that the JSON object does not contain.
Absent == "<absent>"

\* A JSON object restricted to the keys the handlers read.
Payloads == [name : Names \cup {Absent},
             code : Codes \cup {Absent},
             image_data : Images \cup {Absent}]

EmptyObject == [name |-> Absent, code |-> Absent, image_data |-> Absent]

Cert(n, c, i) == [name |-> n, code |-> c, image_data |-> i]

\* Items of a bulk list: well-formed ones over both codes, and one item
\* lacking each of the three keys.
BatchItems == {Cert("A", "c1", "p"), Cert("B", "c1", "q"),
               Cert("A", "c2", "q"), Cert("B", "c2", "p"),
               Cert(Absent, "c1", "p"), Cert("A", Absent, "q"),
               Cert("B", "c2", Absent)}

RaceItems == {Cert("A", "c1", "p"), Cert("B", "c2", "q"), Cert("B", Absent, "q")}

SeqsUpTo(S, n) == UNION {[1..k -> S] : k \in 0..n}

\* Bodies of POST /api/certificates: no JSON body, or a JSON object.
AddBodies == {[kind |-> "null", obj |-> EmptyObject]}
             \cup {[kind |-> "object", obj |-> p] : p \in Payloads}

RaceAddBodies == {[kind |-> "object", obj |-> p] :
                    p \in {Cert("A", "c1", "p"), Cert("B", "c1", "q"),
                           Cert("A", "c2", "q"), Cert("A", "c1", Absent)}}

\* Bodies of POST /api/certificates/bulk: no JSON body, an object without
\* the "certificates" key, or an object with a list under that key.
BulkBodiesOver(items, n) ==
    {[kind |-> "null", certificates |-> <<>>],
     [kind |-> "nokey", certificates |-> <<>>]}
    \cup {[kind |-> "list", certificates |-> l] : l \in SeqsUpTo(items, n)}

BulkBodies == BulkBodiesOver(BatchItems, MaxBatch)

RaceBulkBodies == BulkBodiesOver(RaceItems, MaxRaceBatch)

(* ---------------------------------------------------------------------- *)
(* The certificate table                                                   *)
(* ---------------------------------------------------------------------- *)

\* The query filters on the wrong column.
ExistsByName(st, code) == \E r \in st : r.name = code

\* Certificate.query.filter_by(code=code).first() is truthy.
ExistsByCode(st, code) == \E r \in st : r.code = code

\* The query returns the first row of the table, whatever its code.
FindAny(st, code) == CHOOSE r \in st : TRUE

\* Certificate.query.filter_by(code=code).first(), when it finds a row.
FindByCode(st, code) == CHOOSE r \in st : r.code = code

MaxId(st) == CHOOSE m \in {r.id : r \in st} : \A r \in st : r.id <= m

\* Every row gets the same key.
ConstantId(st) == 1

\* The integer primary key the table gives the next inserted row.
NextId(st) == IF st = {} THEN 1 ELSE MaxId(st) + 1

\* The code column without its unique constraint.
NoConstraint(st, certs) == FALSE

\* unique=True on the code column: the rows to insert clash with a stored
\* row or with each other.
UniqueViolation(st, certs) ==
    \/ \E i \in 1..Len(certs) : ExistsByCode(st, certs[i].code)
    \/ \E i, j \in 1..Len(certs) : i < j /\ certs[i].code = certs[j].code

\* The row stores the name in the image column.
RowImageFromName(id, cert) == [id |-> id, name |-> cert.name, code |-> cert.code,
                               image_data |-> cert.name]

\* The table row of a Certificate object.
Row(id, cert) == [id |-> id, name |-> cert.name, code |-> cert.code,
                  image_data |-> cert.image_data]

\* The insert stops one row short of the list.
InsertAllButLast(st, certs) ==
    st \cup {[id |-> NextId(st) + i - 1, name |-> certs[i].name,
              code |-> certs[i].code, image_data |-> certs[i].image_data] :
                i \in 1..(Len(certs) - 1)}

\* The table after the rows are inserted in list order and committed.
InsertAll(st, certs) ==
    st \cup {Row(NextId(st) + i - 1, certs[i]) : i \in 1..Len(certs)}

(* ---------------------------------------------------------------------- *)
(* Validation                                                              *)
(* ---------------------------------------------------------------------- *)

\* The check forgets the image_data key.
HasNameAndCode(p) == p.name # Absent /\ p.code # Absent

\* all(k in data for k in ['name', 'code', 'image_data'])
HasAllKeys(p) == p.name # Absent /\ p.code # Absent /\ p.image_data # Absent

\* `not data`: no body, or an object with no keys.
Falsy(body) == body.kind = "null" \/ body.obj = EmptyObject

(* ---------------------------------------------------------------------- *)
(* Requests and responses                                                  *)
(* ---------------------------------------------------------------------- *)

Idle == [pc |-> "idle"]

\* What a response records of a bulk request: the shape of its body and the
\* length of its list.
Summary(body) == [kind |-> body.kind, size |-> Len(body.certificates)]

NoResponse == [op |-> "none", status |-> 0]

Response(op, request, status, json) ==
    [op |-> op, request |-> request, status |-> status, json |-> json]

\* An exception that no handler catches: the session is rolled back and the
\* framework answers 500.
Unhandled(op, request) ==
    Response(op, request, 500, [error |-> "Internal Server Error"])

Init ==
    /\ store = {}
    /\ req = [s \in Slots |-> Idle]
    /\ resp = [s \in Slots |-> NoResponse]

\* The worker of slot s is free to receive a request.
Free(s) == req[s].pc = "idle"

Finish(s, r) ==
    /\ req' = [req EXCEPT ![s] = Idle]
    /\ resp' = [resp EXCEPT ![s] = r]

\* add_certificate up to its pre-check.
AddCertificate(s, body) ==
    /\ Free(s)
    /\ IF Falsy(body) \/ ~HasAllKeys(body.obj)
       THEN Finish(s, Response("add", body, 400, [error |-> "Missing data"]))
       ELSE IF ExistsByCode(store, body.obj.code)
       THEN Finish(s, Response("add", body, 409,
                               [error |-> "Certificate code already exists"]))
       ELSE /\ req' = [req EXCEPT ![s] = [pc |-> "add_commit", body |-> body]]
            /\ resp' = [resp EXCEPT ![s] = NoResponse]
    /\ UNCHANGED store

\* add_certificate from the insert to the response.
AddCommit(s) ==
    /\ req[s].pc = "add_commit"
    /\ LET body == req[s].body
           certs == <<body.obj>>
       IN IF UniqueViolation(store, certs)
          THEN /\ Finish(s, Unhandled("add", body))
               /\ UNCHANGED store
          ELSE /\ store' = InsertAll(store, certs)
               /\ Finish(s, Response("add", body, 201,
                           [message |-> "Certificate created successfully",
                            id |-> NextId(store)]))

\* The answer of get_certificate(code) on the table st.
GetResponse(st, code) ==
    IF ExistsByCode(st, code)
    THEN LET cert == FindByCode(st, code)
         IN Response("get", code, 200,
                     [name |-> cert.name, code |-> cert.code,
                      image_data |-> cert.image_data])
    ELSE Response("get", code, 404, [error |-> "Certificate not found"])

\* get_certificate.
GetCertificate(s, code) ==
    /\ Free(s)
    /\ Finish(s, GetResponse(store, code))
    /\ UNCHANGED store

\* add_bulk_certificates up to the start of its loop.
BulkBegin(s, body) ==
    /\ Free(s)
    /\ IF body.kind # "list"
       THEN Finish(s, Response("bulk", Summary(body), 400,
                               [error |-> "Missing certificate list"]))
       ELSE /\ req' = [req EXCEPT ![s] = [pc |-> "bulk_loop", body |-> body,
                                          idx |-> 1, certs_to_add |-> <<>>]]
            /\ resp' = [resp EXCEPT ![s] = NoResponse]
    /\ UNCHANGED store

\* The iteration without its query: every well-formed item is accepted.
BulkStepNoQuery(st, certs_to_add, cert_data) ==
    IF cert_data.name # Absent /\ cert_data.code # Absent
       /\ cert_data.image_data # Absent
    THEN Append(certs_to_add, cert_data)
    ELSE certs_to_add

\* certs_to_add after one iteration of the loop over data['certificates'].
BulkStep(st, certs_to_add, cert_data) ==
    IF ~HasAllKeys(cert_data)
    THEN certs_to_add
    ELSE IF ~ExistsByCode(st, cert_data.code)
    THEN Append(certs_to_add, cert_data)
    ELSE certs_to_add

\* One iteration of the loop of add_bulk_certificates.
BulkItem(s) ==
    /\ req[s].pc = "bulk_loop"
    /\ req[s].idx <= Len(req[s].body.certificates)
    /\ req' = [req EXCEPT
                 ![s].certs_to_add =
                     BulkStep(store, @, req[s].body.certificates[req[s].idx]),
                 ![s].idx = @ + 1]
    /\ UNCHANGED <<store, resp>>

\* add_bulk_certificates after its loop: the no-op answer, or the bulk
\* insert, the commit and the answer.
BulkFinish(s) ==
    /\ req[s].pc = "bulk_loop"
    /\ req[s].idx > Len(req[s].body.certificates)
    /\ LET body == req[s].body
           certs_to_add == req[s].certs_to_add
       IN IF certs_to_add = <<>>
          THEN /\ Finish(s, Response("bulk", Summary(body), 200,
                     [message |-> "No new certificates to add or data was invalid."]))
               /\ UNCHANGED store
          ELSE IF UniqueViolation(store, certs_to_add)
          THEN /\ Finish(s, Unhandled("bulk", Summary(body)))
               /\ UNCHANGED store
          ELSE /\ store' = InsertAll(store, certs_to_add)
               /\ Finish(s, Response("bulk", Summary(body), 201,
                     [message |-> "Successfully added N certificates.",
                      N |-> Len(certs_to_add)]))

\* Requests served one at a time: a request runs to its response before the
\* next one is received.
Next ==
    \/ Free(1) /\ \E body \in AddBodies : AddCertificate(1, body)
    \/ AddCommit(1)
    \/ Free(1) /\ \E body \in BulkBodies : BulkBegin(1, body)
    \/ BulkItem(1)
    \/ BulkFinish(1)
    \/ \E code \in Codes : GetCertificate(1, code)

Spec == Init /\ [][Next]_vars

\* Two workers: the steps of two requests interleave.
NextRace ==
    \/ \E s \in Slots : Free(s) /\ \E body \in RaceAddBodies : AddCertificate(s, body)
    \/ \E s \in Slots : AddCommit(s)
    \/ \E s \in Slots : Free(s) /\ \E body \in RaceBulkBodies : BulkBegin(s, body)
    \/ \E s \in Slots : BulkItem(s)
    \/ \E s \in Slots : BulkFinish(s)
    \/ \E s \in Slots, code \in Codes : GetCertificate(s, code)

SpecRace == Init /\ [][NextRace]_vars

(* ---------------------------------------------------------------------- *)
(* Vocabulary of the properties                                            *)
(* ---------------------------------------------------------------------- *)

Keys == {"name", "code", "image_data"}

\* The JSON object p lacks one of the three keys.
Lacks(p) == \E k \in Keys : p[k] = Absent

CodeStored(st, c) == \E r \in st : r.code = c

RecordsWithCode(st, c) == {r \in st : r.code = c}

Least(S) == CHOOSE i \in S : \A j \in S : i <= j

\* Slot s answers a request in this step.
Answers(s) == resp'[s] # resp[s] /\ resp'[s].status # 0

\* Slot s receives an add_certificate request in this step.
AddReceived(s) ==
    /\ req[s].pc = "idle"
    /\ \/ req'[s].pc = "add_commit"
       \/ Answers(s) /\ resp'[s].op = "add"

\* The body of the add_certificate request that slot s receives in this step.
ReceivedBody(s) ==
    IF req'[s].pc = "add_commit" THEN req'[s].body ELSE resp'[s].request

\* Slot s finishes an add_certificate request that passed its pre-check.
AddCommitted(s) == req[s].pc = "add_commit" /\ req'[s].pc = "idle"

\* Slot s finishes an add_bulk_certificates request that had a list.
BulkFinished(s) == req[s].pc = "bulk_loop" /\ req'[s].pc = "idle"

\* The well-formed items of the list that carry code c.
Candidates(certs, c) ==
    {i \in 1..Len(certs) : ~Lacks(certs[i]) /\ certs[i].code = c}

\* The codes of the well-formed items that st does not hold.
NewCodes(st, certs) ==
    {c \in Codes : Candidates(certs, c) # {} /\ ~CodeStored(st, c)}

(* ---------------------------------------------------------------------- *)
(* Properties                                                              *)
(* ---------------------------------------------------------------------- *)

\* C1: under any interleaving of add, bulk and lookup requests, no two stored
\* records have the same code.
UniqueCodes == \A r1, r2 \in store : r1.code = r2.code => r1 = r2

\* The unique constraint has rejected a write and the table holds two records.
UniqueCodesWitness ==
    /\ Cardinality(store) = 2
    /\ \E s \in Slots : resp[s].status = 500

\* C2: when several well-formed items of a bulk list share a code that is
\* not stored, the request answers 201 and exactly one record with that code
\* is written, carrying the name and image_data of the earliest such item.
FirstSeenWins ==
    [][\A s \in Slots : BulkFinished(s) =>
         LET certs == req[s].body.certificates
         IN \A c \in Codes :
              (Cardinality(Candidates(certs, c)) >= 2 /\ ~CodeStored(store, c)) =>
                 /\ resp'[s].status = 201
                 /\ \E r \in store' :
                      /\ RecordsWithCode(store', c) = {r}
                      /\ r.name = certs[Least(Candidates(certs, c))].name
                      /\ r.image_data =
                             certs[Least(Candidates(certs, c))].image_data]_vars

DuplicateRejected ==
    [][\A s \in Slots :
         (/\ AddReceived(s)
          /\ ReceivedBody(s).kind = "object"
          /\ ~Lacks(ReceivedBody(s).obj)
          /\ CodeStored(store, ReceivedBody(s).obj.code)) =>
             /\ req'[s].pc = "idle"
             /\ resp'[s].status = 409
             /\ resp'[s].json = [error |-> "Certificate code already exists"]
             /\ store' = store]_vars

\* An add_certificate request with a stored code was answered 409.
DuplicateRejectedWitness ==
    \E s \in Slots :
        /\ resp[s].op = "add"
        /\ resp[s].status = 409
        /\ CodeStored(store, resp[s].request.obj.code)

\* C5: add_certificate with no body, or with an object that lacks one of the
\* three keys, answers 400 and leaves the table as it was, whether or not the
\* code it carries is stored.
MissingFieldsRejected ==
    [][\A s \in Slots :
         (/\ AddReceived(s)
          /\ ReceivedBody(s).kind = "null" \/ Lacks(ReceivedBody(s).obj)) =>
             /\ req'[s].pc = "idle"
             /\ resp'[s].status = 400
             /\ resp'[s].json = [error |-> "Missing data"]
             /\ store' = store]_vars

\* An add_certificate request that lacks a key and carries a stored code was
\* answered 400.
MissingFieldsWitness ==
    \E s \in Slots :
        /\ resp[s].op = "add"
        /\ resp[s].status = 400
        /\ resp[s].request.kind = "object"
        /\ resp[s].request.obj.code # Absent
        /\ CodeStored(store, resp[s].request.obj.code)

\* C6: a bulk request whose items all lack a key or carry a stored code
\* (the empty list included) answers 200 with the no-op message, and no step
\* of the request changes the table.
BulkNoOp ==
    [][\A s \in Slots :
         /\ (/\ BulkFinished(s)
             /\ \A i \in 1..Len(req[s].body.certificates) :
                  \/ Lacks(req[s].body.certificates[i])
                  \/ CodeStored(store, req[s].body.certificates[i].code)) =>
                /\ resp'[s].status = 200
                /\ resp'[s].json =
                     [message |-> "No new certificates to add or data was invalid."]
                /\ store' = store
         /\ req'[s].pc = "bulk_loop" => store' = store]_vars

\* A bulk request with a non-empty list was answered 200 on a non-empty table.
BulkNoOpWitness ==
    \E s \in Slots :
        /\ resp[s].op = "bulk"
        /\ resp[s].status = 200
        /\ resp[s].request.size >= 2
        /\ store # {}

\* C7: when a bulk request answers 201 with N, N is the number of records
\* the request added, N >= 1, and the added records are one record for each
\* code that was not stored and that a well-formed item carries.
BulkCount ==
    [][\A s \in Slots : (BulkFinished(s) /\ resp'[s].status = 201) =>
         LET certs == req[s].body.certificates
             added == store' \ store
         IN /\ store \subseteq store'
            /\ resp'[s].json.N = Cardinality(store') - Cardinality(store)
            /\ resp'[s].json.N >= 1
            /\ {r.code : r \in added} = NewCodes(store, certs)
            /\ Cardinality(added) = Cardinality(NewCodes(store, certs))
            /\ \A r \in added : \E i \in Candidates(certs, r.code) :
                 r.name = certs[i].name /\ r.image_data = certs[i].image_data]_vars

\* A bulk request of three items was answered 201 with N = 2.
BulkCountWitness ==
    \E s \in Slots :
        /\ resp[s].op = "bulk"
        /\ resp[s].status = 201
        /\ resp[s].json.N = 2
        /\ resp[s].request.size = 3

\* C8: an add_certificate request that loses the race for a code (its write
\* is rejected by the unique constraint) is answered 409, not by an unhandled
\* failure.
RaceSurfacedAsDuplicate ==
    \A s \in Slots : resp[s].op = "add" => resp[s].status \in {201, 400, 409}

\* C9: a stored record stays stored with the same id, name, code and
\* image_data, and no two records share an id.
WriteOnce ==
    [][/\ store \subseteq store'
       /\ \A r1, r2 \in store' : r1.id = r2.id => r1 = r2]_vars

\* Two records are stored and a later request has failed.
WriteOnceWitness ==
    /\ Cardinality(store) = 2
    /\ \E s \in Slots : resp[s].status \in {400, 409, 500}

\* C10: get_certificate answers 404 exactly when no stored record has the
\* code, otherwise 200 with the name, code and image_data of the record with
\* that code, and leaves the table as it was.
LookupCorrect ==
    [][\A s \in Slots : (req[s].pc = "idle" /\ Answers(s) /\ resp'[s].op = "get") =>
         LET code == resp'[s].request
         IN /\ store' = store
            /\ (resp'[s].status = 404) <=> ~CodeStored(store, code)
            /\ resp'[s].status # 404 =>
                 /\ resp'[s].status = 200
                 /\ \E r \in store :
                      /\ r.code = code
                      /\ resp'[s].json = [name |-> r.name, code |-> r.code,
                                          image_data |-> r.image_data]]_vars

\* A lookup was answered 200 while the table holds two records.
LookupWitness ==
    \E s \in Slots :
        /\ resp[s].op = "get"
        /\ resp[s].status = 200
        /\ Cardinality(store) = 2

====
